---------------------------- MODULE Spec2Model ----------------------------
(***************************************************************************)
(* vinput: the registry of virtual input device types (vinput_devices),    *)
(* of virtual device instances (vinput_vdevices) and of their minor        *)
(* numbers (vinput_ids), all guarded by the spinlock vinput_lock.          *)
(*                                                                         *)
(* Threads call vinput_register, export_store, unexport_store,             *)
(* vinput_open and vinput_unregister.  One action is one critical section  *)
(* of vinput_lock or one call into the driver core / input core /          *)
(* provider, so the interleavings of the model are those of the lock.      *)
(*                                                                         *)
(*   Spec      one caller, any number of calls, one after the other        *)
(*   SpecConc  two callers at once, MaxCalls calls in all                  *)
(*   SpecIO    vinput_read and vinput_write on a file opened on a          *)
(*             registered instance                                         *)
(*                                                                         *)
(* struct vinput objects live in a heap of MaxObj slots.  The driver-core  *)
(* reference count of vinput->dev is modelled (field kref): the release    *)
(* callback vinput_release_dev runs when the last reference is put.  A     *)
(* registered input device holds a reference on its parent vinput->dev.    *)
(*                                                                         *)
(* Undefined behaviour (use of freed memory, NULL dereference, a driver    *)
(* core call on an object in the wrong state) is a choice between a kernel *)
(* oops, which kills the calling thread where it stands, and the call      *)
(* going through on whatever the memory holds.  The contents of freed      *)
(* memory are not kept: a read of it may yield any value.                  *)
(* kzalloc is assumed to succeed while a slot is free.                     *)
(***************************************************************************)
EXTENDS Integers, Sequences, FiniteSets, TLC

(* ------------------------------ bounds -------------------------------- *)
\* size of the minor bitmap (32 in vinput.c, scaled down for checking)
VINPUT_MINORS == 3
\* slots of the heap that kzalloc(sizeof(struct vinput)) can return
MaxObj == 4
\* calls that may be made in all in a run of SpecConc
MaxCalls == 4
\* size of the message buffer, VINPUT_MAX_LEN of vinput.h
VINPUT_MAX_LEN == 3
\* the errno that vinput_read adds to *offset when copy_to_user fails
EFAULT == 14

\* the concurrent callers
Threads == {1, 2}
\* the value of budget when calls are not counted
Unlimited == MaxCalls + 1
Addr == 1..MaxObj
NULL == 0
HEAD == -1
POISON == -2
Ids == 0..(VINPUT_MINORS - 1)

(* --------------------------- device types ----------------------------- *)
vkbd == <<"v", "k", "b", "d">>
vkbdpro == <<"v", "k", "b", "d", "p", "r", "o">>
vts == <<"v", "t", "s">>
\* the struct vinput_device objects that modules register, by name
Providers == {vkbd, vkbdpro}
\* the strings written to the export attribute
TypeNames == {vkbd, vkbdpro, vts}
NoDev == <<>>

VARIABLES
    vinput_ids,       \* DECLARE_BITMAP(vinput_ids, VINPUT_MINORS): set bits
    vinput_devices,   \* LIST_HEAD(vinput_devices): providers, head first
    vinput_vdevices,  \* LIST_HEAD(vinput_vdevices): addresses, head first
    vinput_lock,      \* "unlocked", or "locked": between two steps only by
                      \* a thread that died inside a critical section
    heap,             \* the struct vinput at each address
    th,               \* per thread: position, local variables and whether
                      \* it holds vinput_lock
    budget,           \* calls that may still be made, or Unlimited
    io,               \* the last vinput_read or vinput_write on the open file
    reg_order         \* history: the registered providers, oldest first

vars == <<vinput_ids, vinput_devices, vinput_vdevices, vinput_lock, heap, th,
          budget, io, reg_order>>

(* ------------------------------ helpers ------------------------------- *)
SeqToSet(s) == {s[i] : i \in DOMAIN s}

RECURSIVE Remove(_, _)
Remove(s, x) ==
    IF s = <<>> THEN <<>>
    ELSE IF Head(s) = x THEN Remove(Tail(s), x)
    ELSE <<Head(s)>> \o Remove(Tail(s), x)

Min(S) == CHOOSE x \in S : \A y \in S : x <= y

\* strncmp(type, name, strlen(name)) == 0
strncmp_eq(type, name) ==
    /\ Len(name) <= Len(type)
    /\ \A i \in 1..Len(name) : type[i] = name[i]

\* list_add(new, head): insert right after the head
list_add_tail(new, list) == list \o <<new>>
list_add(new, list) == <<new>> \o list

\* list_del(entry)
list_del(entry, list) == Remove(list, entry)

\* the loop of vinput_get_device_by_type: first match from the head
RECURSIVE FirstMatch(_, _)
FirstMatch(list, type) ==
    IF list = <<>> THEN NoDev
    ELSE IF strncmp_eq(type, Head(list)) THEN Head(list)
    ELSE FirstMatch(Tail(list), type)

vinput_get_device_by_type(type) == FirstMatch(vinput_devices, type)

\* set_bit(nr, vinput_ids)
set_bit_lost(nr, bits) == bits
set_bit(nr, bits) == bits \cup {nr}

\* clear_bit(nr, vinput_ids)
clear_bit_lost(nr, bits) == bits
clear_bit(nr, bits) == bits \ {nr}

\* find_first_zero_bit(vinput_ids, VINPUT_MINORS)
find_first_zero_bit_wrap(bits) ==
    IF Ids \ bits = {} THEN 0 ELSE Min(Ids \ bits)
find_last_zero_bit(bits) ==
    IF Ids \ bits = {} THEN VINPUT_MINORS
    ELSE CHOOSE x \in Ids \ bits : \A y \in Ids \ bits : y <= x
find_first_zero_bit(bits) ==
    IF Ids \ bits = {} THEN VINPUT_MINORS ELSE Min(Ids \ bits)

\* spin_lock(&vinput_lock), once the lock was free: the caller holds it
spin_lock(lock) == "locked"

\* spin_unlock(&vinput_lock)
spin_unlock_lost(lock) == lock
spin_unlock(lock) == "unlocked"

\* a struct vinput as kzalloc returns it; also what a freed slot holds
Zero == [alloc |-> FALSE, id |-> 0, type |-> NoDev,
         input |-> "null", node |-> "none", kref |-> 0]

\* a thread outside every call: its locals hold nothing
NoSnapshot == [ids |-> {}, vdevs |-> {}, held |-> {}, types |-> {},
               devs |-> <<>>]
IdleThread == [pc |-> "idle", op |-> "none", buf |-> NoDev, id |-> 0,
               device |-> NoDev, vinput |-> NULL, next |-> NULL,
               err |-> "none", pre |-> NoSnapshot, holds |-> FALSE]

\* the shared state as one value, for the operators below
Shared == [ids |-> vinput_ids, vdevs |-> vinput_vdevices,
           heap |-> heap, lock |-> vinput_lock, oops |-> FALSE]

Oops(S) == [S EXCEPT !.oops = TRUE]

\* vinput_lock after a critical section that ran to its spin_unlock
Section == spin_unlock(spin_lock(vinput_lock))

\* the thread record r after such a critical section
Holding(r) == [r EXCEPT !.holds = (Section = "locked")]

(* ------------------------ instance teardown --------------------------- *)
\* vinput_destroy_vdevice: list_del and clear_bit under the lock, kfree.
\* list_del of an entry that is on no list faults with the lock held.
vinput_destroy_vdevice(S, a) ==
    IF S.lock # "unlocked" THEN {}
    ELSE IF a \in Addr /\ a \in SeqToSet(S.vdevs)
    THEN {[S EXCEPT !.vdevs = list_del(a, S.vdevs),
                    !.ids = clear_bit(S.heap[a].id, S.ids),
                    !.lock = spin_unlock(spin_lock(S.lock)),
                    !.heap[a] = Zero]}
    ELSE {[S EXCEPT !.lock = spin_lock(S.lock), !.oops = TRUE]}

\* vinput_release_dev, the release callback of vinput->dev
vinput_release_dev(S, a) == vinput_destroy_vdevice(S, a)

\* put_device(&vinput->dev): the last put runs the release callback
put_device(S, a) ==
    IF S.heap[a].kref = 1
    THEN vinput_release_dev([S EXCEPT !.heap[a].kref = 0], a)
    ELSE IF S.heap[a].kref = 0 THEN {S}
    ELSE {[S EXCEPT !.heap[a].kref = @ - 1]}

\* device_unregister(&vinput->dev) = device_del + put_device
device_unregister(S, a) ==
    IF a \notin Addr THEN {Oops(S)}
    ELSE IF ~S.heap[a].alloc \/ S.heap[a].kref = 0
    THEN {Oops(S), S}
    ELSE IF S.heap[a].node = "reg"
    THEN put_device([S EXCEPT !.heap[a].node = "del"], a)
    ELSE {Oops(S)} \cup put_device(S, a)

\* vinput_unregister_vdevice: input_unregister_device(vinput->input).
\* Unregistering a registered input device drops its reference on the
\* parent vinput->dev.
vinput_unregister_vdevice(S, a) ==
    IF a \notin Addr THEN {Oops(S)}
    ELSE IF ~S.heap[a].alloc THEN {Oops(S), S}
    ELSE IF S.heap[a].input = "reg"
    THEN put_device([S EXCEPT !.heap[a].input = "gone"], a)
    ELSE IF S.heap[a].input = "null" THEN {Oops(S)}
    ELSE {Oops(S), [S EXCEPT !.heap[a].input = "gone"]}

(* ------------------------------- state -------------------------------- *)
\* a result: an errno name, or "OK" and a byte count
Result(err, n) == [err |-> err, n |-> n]

\* no read or write was made yet
NoIo == [file |-> NULL, op |-> "none", count |-> 0, offset |-> 0, len |-> 0,
         fault |-> FALSE, sent |-> Result("none", 0), sends |-> 0,
         ret |-> Result("none", 0), pos |-> 0]

Init ==
    /\ vinput_ids = {}
    /\ vinput_devices = <<>>
    /\ vinput_vdevices = <<>>
    /\ vinput_lock = "unlocked"
    /\ heap = [a \in Addr |-> Zero]
    /\ th = [t \in Threads |-> IdleThread]
    /\ budget = Unlimited
    /\ io = NoIo
    /\ reg_order = <<>>

\* the same, for runs in which the calls are counted
InitConc ==
    /\ vinput_ids = {}
    /\ vinput_devices = <<>>
    /\ vinput_vdevices = <<>>
    /\ vinput_lock = "unlocked"
    /\ heap = [a \in Addr |-> Zero]
    /\ th = [t \in Threads |-> IdleThread]
    /\ budget = MaxCalls
    /\ io = NoIo
    /\ reg_order = <<>>

\* thread t enters a call
Call(t) ==
    /\ th[t].pc = "idle"
    /\ budget # 0
    /\ budget' = IF budget = Unlimited THEN budget ELSE budget - 1

\* the registries as the caller finds them: the allocated ids, the
\* instances on the list, the ids they hold and the providers they are
\* bound to, the providers
Snapshot == [ids |-> vinput_ids, vdevs |-> SeqToSet(vinput_vdevices),
             held |-> {heap[a].id : a \in SeqToSet(vinput_vdevices)},
             types |-> {heap[a].type : a \in SeqToSet(vinput_vdevices)},
             devs |-> vinput_devices]

\* write the outcome o of a call back to the shared variables
Apply(o) ==
    /\ vinput_ids' = o.ids
    /\ vinput_vdevices' = o.vdevs
    /\ heap' = o.heap
    /\ vinput_lock' = o.lock

\* a thread killed by an oops: it never runs again, its locals are gone.
\* Of a lookup by id there stay the id asked for and the ids that were
\* held, to say which lookup it died in.
Dead(t) ==
    IF th[t].op \in {"unexport", "open"}
    THEN [IdleThread EXCEPT !.pc = "oops", !.op = th[t].op, !.id = th[t].id,
                            !.pre.held = th[t].pre.held,
                            !.holds = th[t].holds]
    ELSE [IdleThread EXCEPT !.pc = "oops", !.holds = th[t].holds]

\* thread t holds vinput_lock after a step with outcome o: it held it
\* before, or took it in this step and did not release it
Holds(t, o) ==
    th[t].holds \/ (vinput_lock = "unlocked" /\ o.lock = "locked")

\* thread t goes on to pc, or dies if the call oopsed
Goto(t, o, pc) ==
    th' = [th EXCEPT ![t] = [(IF o.oops THEN Dead(t) ELSE [@ EXCEPT !.pc = pc])
                               EXCEPT !.holds = Holds(t, o)]]

\* thread t returns err to its caller: its locals go out of scope (op,
\* buf, id and pre stay to say which call returned)
Returned(t, err) ==
    [IdleThread EXCEPT !.pc = "ret", !.err = err, !.op = th[t].op,
                       !.buf = th[t].buf, !.id = th[t].id, !.pre = th[t].pre,
                       !.holds = th[t].holds]

Ret(t, o, err) ==
    th' = [th EXCEPT ![t] = [(IF o.oops THEN Dead(t) ELSE Returned(t, err))
                               EXCEPT !.holds = Holds(t, o)]]

(* --------------------------- vinput_register -------------------------- *)
\* lines 320-330: list_add under the lock, return 0.  A provider is one
\* list node: it is registered only while it is off the list.
vinput_register(t, dev) ==
    /\ Call(t)
    /\ vinput_lock = "unlocked"
    /\ dev \notin SeqToSet(vinput_devices)
    /\ vinput_devices' = list_add(dev, vinput_devices)
    /\ vinput_lock' = Section
    /\ th' = [th EXCEPT ![t] =
                Holding([IdleThread EXCEPT !.pc = "ret", !.op = "register",
                                           !.buf = dev, !.err = "OK"])]
    /\ reg_order' = Append(reg_order, dev)
    /\ UNCHANGED <<vinput_ids, vinput_vdevices, heap, io>>

(* ---------------------------- export_store ---------------------------- *)
\* the slots kzalloc may return: every free slot some thread still points
\* to, and the lowest of the others (the others are interchangeable)
Dangling == {a \in Addr : ~heap[a].alloc /\
                \E t \in Threads : th[t].vinput = a \/ th[t].next = a}
FreeSlots == {a \in Addr : ~heap[a].alloc}
kzalloc ==
    Dangling \cup (IF FreeSlots \ Dangling = {} THEN {}
                   ELSE {Min(FreeSlots \ Dangling)})

\* export_store, lines 242-247: look the type up under the lock
export_lookup(t, buf) ==
    /\ Call(t)
    /\ vinput_lock = "unlocked"
    /\ vinput_lock' = Section
    /\ LET device == vinput_get_device_by_type(buf) IN
         th' = [th EXCEPT ![t] = Holding(
                  IF device = NoDev
                  THEN [IdleThread EXCEPT !.pc = "ret", !.op = "export",
                                          !.buf = buf, !.err = "ENODEV",
                                          !.pre = Snapshot]
                  ELSE [IdleThread EXCEPT !.pc = "alloc", !.op = "export",
                                          !.buf = buf, !.device = device,
                                          !.pre = Snapshot])]
    /\ UNCHANGED <<vinput_ids, vinput_devices, vinput_vdevices,
                   heap, io, reg_order>>

\* vinput_alloc_vdevice, lines 167-183 and fail_id: take the first zero
\* bit and put the new object on the list in one critical section
alloc_id(t) ==
    /\ th[t].pc = "alloc"
    /\ vinput_lock = "unlocked"
    /\ kzalloc # {}
    /\ LET id == find_first_zero_bit(vinput_ids) IN
         IF id >= VINPUT_MINORS
         THEN /\ th' = [th EXCEPT ![t] = Holding(Returned(t, "ENOBUFS"))]
              /\ UNCHANGED <<vinput_ids, vinput_vdevices, heap>>
         ELSE \E a \in kzalloc :
              /\ heap' = [heap EXCEPT ![a] =
                            [Zero EXCEPT !.alloc = TRUE, !.id = id]]
              /\ vinput_ids' = set_bit(id, vinput_ids)
              /\ vinput_vdevices' = list_add(a, vinput_vdevices)
              /\ th' = [th EXCEPT ![t] =
                          Holding([@ EXCEPT !.pc = "input_alloc",
                                            !.vinput = a, !.id = id])]
    /\ vinput_lock' = Section
    /\ UNCHANGED <<vinput_devices, budget, io, reg_order>>

\* vinput_alloc_vdevice, lines 186-199, and the binding of line 255
input_allocate(t) ==
    /\ th[t].pc = "input_alloc"
    /\ LET a == th[t].vinput IN
       \E ok \in BOOLEAN :
       \E o \in (IF heap[a].alloc
                 THEN {[Shared EXCEPT !.heap[a].input =
                                         IF ok THEN "alloc" ELSE "null",
                                      !.heap[a].type =
                                         IF ok THEN th[t].device ELSE @]}
                 ELSE {Oops(Shared), Shared}) :
          /\ Apply(o)
          /\ IF o.oops THEN Goto(t, o, "oops")
             ELSE IF ok THEN Goto(t, o, "init")
             ELSE th' = [th EXCEPT ![t].pc = "fail_input_dev",
                                   ![t].err = "ENOMEM"]
    /\ UNCHANGED <<vinput_devices, budget, io, reg_order>>

\* vinput_alloc_vdevice, fail_input_dev: list_del under the lock, kfree
fail_input_dev(t) ==
    /\ th[t].pc = "fail_input_dev"
    /\ vinput_lock = "unlocked"
    /\ LET a == th[t].vinput IN
       \E o \in (IF a \in SeqToSet(vinput_vdevices)
                 THEN {[Shared EXCEPT !.vdevs = list_del(a, vinput_vdevices),
                                      !.lock = Section,
                                      !.heap[a] = Zero]}
                 ELSE {[Shared EXCEPT !.lock = spin_lock(vinput_lock),
                                      !.oops = TRUE]}) :
          /\ Apply(o)
          /\ Ret(t, o, th[t].err)
    /\ UNCHANGED <<vinput_devices, budget, io, reg_order>>

\* vinput_register_vdevice: fill in vinput->input, call the provider's init
provider_init(t) ==
    /\ th[t].pc = "init"
    /\ LET a == th[t].vinput IN
       \E ok \in BOOLEAN :
       \E o \in (IF ~heap[a].alloc THEN {Oops(Shared), Shared}
                 ELSE IF heap[a].input \in {"null", "gone"}
                         \/ heap[a].type = NoDev
                 THEN {Oops(Shared)}
                 ELSE {Shared}) :
          /\ Apply(o)
          /\ IF o.oops THEN Goto(t, o, "oops")
             ELSE IF ok THEN Goto(t, o, "device_register")
             ELSE th' = [th EXCEPT ![t].pc = "fail_register_vinput",
                                   ![t].err = "EINIT"]
    /\ UNCHANGED <<vinput_devices, budget, io, reg_order>>

\* export_store, line 260: device_register(&vinput->dev)
dev_register(t) ==
    /\ th[t].pc = "device_register"
    /\ LET a == th[t].vinput IN
       \E ok \in BOOLEAN :
       \E o \in (IF ~heap[a].alloc THEN {Oops(Shared), Shared}
                 ELSE {[Shared EXCEPT !.heap[a].kref = 1,
                                      !.heap[a].node =
                                         IF ok THEN "reg" ELSE "none"]}) :
          /\ Apply(o)
          /\ IF o.oops THEN Goto(t, o, "oops")
             ELSE IF ok THEN Goto(t, o, "input_register")
             ELSE th' = [th EXCEPT ![t].pc = "fail_register",
                                   ![t].err = "EREG"]
    /\ UNCHANGED <<vinput_devices, budget, io, reg_order>>

\* export_store, line 264: input_register_device(vinput->input); the
\* registered input device holds a reference on its parent vinput->dev
input_register(t) ==
    /\ th[t].pc = "input_register"
    /\ LET a == th[t].vinput IN
       \E ok \in BOOLEAN :
       \E o \in (IF ~heap[a].alloc THEN {Oops(Shared), Shared}
                 ELSE IF heap[a].input # "alloc" THEN {Oops(Shared)}
                 ELSE IF ok
                 THEN {[Shared EXCEPT !.heap[a].input = "reg",
                                      !.heap[a].kref = @ + 1]}
                 ELSE {Shared}) :
          /\ Apply(o)
          /\ IF o.oops THEN Goto(t, o, "oops")
             ELSE IF ok THEN Ret(t, o, "OK")
             ELSE th' = [th EXCEPT ![t].pc = "fail_register_input",
                                   ![t].err = "EINPUT"]
    /\ UNCHANGED <<vinput_devices, budget, io, reg_order>>

\* export_store, fail_register_input: device_unregister(&vinput->dev)
fail_register_input(t) ==
    /\ th[t].pc = "fail_register_input"
    /\ \E o \in device_unregister(Shared, th[t].vinput) :
          Apply(o) /\ Goto(t, o, "fail_register")
    /\ UNCHANGED <<vinput_devices, budget, io, reg_order>>

\* export_store, fail_register: vinput_unregister_vdevice(vinput)
fail_register(t) ==
    /\ th[t].pc = "fail_register"
    /\ \E o \in vinput_unregister_vdevice(Shared, th[t].vinput) :
          Apply(o) /\ Goto(t, o, "fail_register_vinput")
    /\ UNCHANGED <<vinput_devices, budget, io, reg_order>>

\* export_store, fail_register_vinput: vinput_destroy_vdevice(vinput)
fail_register_vinput(t) ==
    /\ th[t].pc = "fail_register_vinput"
    /\ \E o \in vinput_destroy_vdevice(Shared, th[t].vinput) :
          Apply(o) /\ Ret(t, o, th[t].err)
    /\ UNCHANGED <<vinput_devices, budget, io, reg_order>>

(* ---------------- vinput_get_vdevice_by_id and its callers ------------ *)
\* the loop of vinput_get_vdevice_by_id: the entry it breaks at, else the
\* last entry visited, else NULL
RECURSIVE ScanById(_, _, _)
ScanById(list, id, last) ==
    IF list = <<>> THEN last
    ELSE IF heap[Head(list)].id = id THEN Head(list)
    ELSE ScanById(Tail(list), id, Head(list))

\* unexport_store line 293 / vinput_open line 72: the scan of
\* vinput_get_vdevice_by_id under the lock, lines 54-60
lookup_scan(t, op, id) ==
    /\ Call(t)
    /\ vinput_lock = "unlocked"
    /\ vinput_lock' = Section
    /\ th' = [th EXCEPT ![t] = Holding(
                [IdleThread EXCEPT !.pc = "id_check", !.op = op, !.id = id,
                                   !.pre = Snapshot,
                                   !.vinput = ScanById(vinput_vdevices, id,
                                                       NULL)])]
    /\ UNCHANGED <<vinput_ids, vinput_devices, vinput_vdevices,
                   heap, io, reg_order>>

\* vinput_get_vdevice_by_id lines 62-64, after the unlock: compare
\* vinput->id again, then the caller's IS_ERR test
id_check(t) ==
    /\ th[t].pc = "id_check"
    /\ LET a == th[t].vinput IN
       \E r \in (IF a = NULL THEN {"oops", "differ"}
                 ELSE IF ~heap[a].alloc THEN {"equal", "differ"}
                 ELSE IF heap[a].id = th[t].id THEN {"equal"}
                 ELSE {"differ"}) :
          th' = [th EXCEPT ![t] =
                   IF r = "oops" THEN Dead(t)
                   ELSE IF r = "differ"
                   THEN Returned(t, "ENODEV")
                   ELSE IF th[t].op = "open"
                   THEN Returned(t, "OK")
                   ELSE [@ EXCEPT !.pc = "unexport_device"]]
    /\ UNCHANGED <<vinput_ids, vinput_devices, vinput_vdevices,
                   vinput_lock, heap, budget, io, reg_order>>

\* unexport_store, line 300: device_unregister(&vinput->dev)
unexport_device(t) ==
    /\ th[t].pc = "unexport_device"
    /\ \E o \in device_unregister(Shared, th[t].vinput) :
          Apply(o) /\ Goto(t, o, "unexport_input")
    /\ UNCHANGED <<vinput_devices, budget, io, reg_order>>

\* unexport_store, line 301: vinput_unregister_vdevice(vinput)
unexport_input(t) ==
    /\ th[t].pc = "unexport_input"
    /\ \E o \in vinput_unregister_vdevice(Shared, th[t].vinput) :
          Apply(o) /\ Ret(t, o, "OK")
    /\ UNCHANGED <<vinput_devices, budget, io, reg_order>>

(* -------------------------- vinput_unregister ------------------------- *)
\* entry->next as list_for_each_safe reads it, without the lock
ListNext(list, a) ==
    IF a = HEAD THEN {IF list = <<>> THEN HEAD ELSE Head(list)}
    ELSE IF \E i \in DOMAIN list : list[i] = a
    THEN LET i == CHOOSE i \in DOMAIN list : list[i] = a IN
         {IF i = Len(list) THEN HEAD ELSE list[i + 1]}
    ELSE {POISON, HEAD}

\* vinput_unregister, lines 338-341: take the provider off the list under
\* the lock, then start the walk over vinput_vdevices without it
unregister_del(t, dev) ==
    /\ Call(t)
    /\ vinput_lock = "unlocked"
    /\ dev \in SeqToSet(vinput_devices)
    /\ vinput_devices' = list_del(dev, vinput_devices)
    /\ \E curr \in ListNext(vinput_vdevices, HEAD) :
       \E next \in ListNext(vinput_vdevices, curr) :
          th' = [th EXCEPT ![t] = Holding(
                   [IdleThread EXCEPT !.pc = "walk", !.op = "unregister",
                                      !.pre = Snapshot,
                                      !.buf = dev, !.vinput = curr,
                                      !.next = next])]
    /\ vinput_lock' = Section
    /\ reg_order' = Remove(reg_order, dev)
    /\ UNCHANGED <<vinput_ids, vinput_vdevices, heap, io>>

\* vinput_unregister, lines 341-344: one turn of list_for_each_safe
unregister_walk(t) ==
    /\ th[t].pc = "walk"
    /\ LET curr == th[t].vinput
           next == th[t].next IN
       IF curr = HEAD
       THEN /\ th' = [th EXCEPT ![t] = Returned(t, "OK")]
            /\ UNCHANGED <<vinput_ids, vinput_vdevices, vinput_lock, heap>>
       ELSE \E o \in device_unregister(Shared, curr) :
            /\ Apply(o)
            /\ IF o.oops \/ next = POISON
               THEN th' = [th EXCEPT ![t] =
                             [Dead(t) EXCEPT !.holds = Holds(t, o)]]
               ELSE \E n \in ListNext(o.vdevs, next) :
                    th' = [th EXCEPT ![t].vinput = next, ![t].next = n,
                                     ![t].holds = Holds(t, o)]
    /\ UNCHANGED <<vinput_devices, budget, io, reg_order>>

(* --------------------- vinput_read and vinput_write ------------------- *)
\* a registered instance of "vkbd" with id 0, and a file that vinput_open
\* has bound to it
InitIO ==
    /\ vinput_ids = {0}
    /\ vinput_devices = <<vkbd>>
    /\ vinput_vdevices = <<1>>
    /\ vinput_lock = "unlocked"
    /\ heap = [a \in Addr |->
                 IF a = 1
                 THEN [alloc |-> TRUE, id |-> 0, type |-> vkbd,
                       input |-> "reg", node |-> "reg", kref |-> 2]
                 ELSE Zero]
    /\ th = [t \in Threads |-> IdleThread]
    /\ budget = 0
    /\ io = [NoIo EXCEPT !.file = 1]
    /\ reg_order = <<vkbd>>

\* file->private_data points to a live instance bound to a provider
FileBound ==
    /\ io.file \in Addr
    /\ heap[io.file].alloc
    /\ heap[io.file].type # NoDev

\* vinput_write, line 117: the length test
too_long_off_by_one(count) == count > VINPUT_MAX_LEN + 1
too_long(count) == count > VINPUT_MAX_LEN

\* what the provider's send may return for count bytes
SendResults(count) == {Result("OK", count), Result("EIO", 0)}

\* vinput_write, lines 109-126.  fault: copy_from_user cannot read the
\* caller's buffer; sent: what the provider's send returns if called
vinput_write(count, fault, sent) ==
    /\ FileBound
    /\ LET copied == ~too_long(count) /\ ~(fault /\ count > 0) IN
       io' = [io EXCEPT
                !.op = "write", !.count = count, !.offset = 0, !.len = 0,
                !.fault = fault /\ count > 0 /\ ~too_long(count),
                !.sent = IF copied THEN sent ELSE Result("none", 0),
                !.sends = IF copied THEN 1 ELSE 0,
                !.ret = IF too_long(count) THEN Result("EINVAL", 0)
                        ELSE IF fault /\ count > 0 THEN Result("EFAULT", 0)
                        ELSE sent]
    /\ UNCHANGED <<vinput_ids, vinput_devices, vinput_vdevices, vinput_lock,
                   heap, th, budget, reg_order>>

\* vinput_read, lines 96-99: the number of bytes to copy out
read_count(count, offset, len) ==
    IF offset > len THEN 0
    ELSE IF count + offset > VINPUT_MAX_LEN THEN len - offset
    ELSE count

\* vinput_read, lines 87-107.  len: what the provider's read returns;
\* fault: copy_to_user cannot write the caller's buffer
vinput_read(count, offset, len, fault) ==
    /\ FileBound
    /\ LET n == read_count(count, offset, len)
           failed == fault /\ n > 0 IN
       io' = [io EXCEPT
                !.op = "read", !.count = count, !.offset = offset,
                !.len = len, !.fault = failed,
                !.sent = Result("none", 0), !.sends = 0,
                !.ret = IF failed THEN Result("EFAULT", 0)
                        ELSE Result("OK", n),
                !.pos = IF failed THEN offset - EFAULT ELSE offset + n]
    /\ UNCHANGED <<vinput_ids, vinput_devices, vinput_vdevices, vinput_lock,
                   heap, th, budget, reg_order>>

\* reads and writes on the open file
NextIO ==
    \/ \E count \in 0..(VINPUT_MAX_LEN + 1), fault \in BOOLEAN :
          \E sent \in SendResults(count) : vinput_write(count, fault, sent)
    \/ \E count, offset \in 0..(VINPUT_MAX_LEN + 1), len \in 0..VINPUT_MAX_LEN,
          fault \in BOOLEAN : vinput_read(count, offset, len, fault)

SpecIO == InitIO /\ [][NextIO]_vars

(* ----------------------------- scheduling ----------------------------- *)
\* the call of thread t returns to its caller
Return(t) ==
    /\ th[t].pc = "ret"
    /\ th' = [th EXCEPT ![t] = IdleThread]
    /\ UNCHANGED <<vinput_ids, vinput_devices, vinput_vdevices,
                   vinput_lock, heap, budget, io, reg_order>>

\* the steps of the callers in T
NextOf(T) ==
    \/ \E t \in T, dev \in Providers : vinput_register(t, dev)
    \/ \E t \in T, buf \in TypeNames : export_lookup(t, buf)
    \/ \E t \in T : alloc_id(t)
    \/ \E t \in T : input_allocate(t)
    \/ \E t \in T : fail_input_dev(t)
    \/ \E t \in T : provider_init(t)
    \/ \E t \in T : dev_register(t)
    \/ \E t \in T : input_register(t)
    \/ \E t \in T : fail_register_input(t)
    \/ \E t \in T : fail_register(t)
    \/ \E t \in T : fail_register_vinput(t)
    \/ \E t \in T, id \in 0..VINPUT_MINORS : lookup_scan(t, "unexport", id)
    \/ \E t \in T, id \in 0..VINPUT_MINORS : lookup_scan(t, "open", id)
    \/ \E t \in T : id_check(t)
    \/ \E t \in T : unexport_device(t)
    \/ \E t \in T : unexport_input(t)
    \/ \E t \in T, dev \in Providers : unregister_del(t, dev)
    \/ \E t \in T : unregister_walk(t)
    \/ \E t \in T : Return(t)

\* one caller at a time, any number of calls
Next == NextOf({1})

Spec == Init /\ [][Next]_vars

\* two callers at once, MaxCalls calls in all
NextConc == NextOf(Threads)

SpecConc == InitConc /\ [][NextConc]_vars

(* ------------------------------ properties ---------------------------- *)
\* the ids held by the instances on vinput_vdevices
HeldIds == {heap[a].id : a \in SeqToSet(vinput_vdevices)}

\* C1: the instances on vinput_vdevices are distinct live objects with
\* pairwise different ids, and the bit of every id they hold is set, so
\* that find_first_zero_bit cannot hand it out again.
C1_IdUniqueness ==
    /\ \A i, j \in DOMAIN vinput_vdevices :
          i # j => /\ vinput_vdevices[i] # vinput_vdevices[j]
                   /\ heap[vinput_vdevices[i]].id # heap[vinput_vdevices[j]].id
    /\ \A a \in SeqToSet(vinput_vdevices) :
          heap[a].alloc /\ heap[a].id \in Ids /\ heap[a].id \in vinput_ids

\* two instances are registered side by side after a Create failed at
\* input_allocate_device and another one went through
C1_Witness ==
    /\ Len(vinput_vdevices) = 2
    /\ Cardinality(vinput_ids) = 3
    /\ \E t \in Threads : th[t].pc = "ret" /\ th[t].op = "export"
                            /\ th[t].err = "OK"

\* C2: an id bit is set in vinput_ids if and only if an instance on
\* vinput_vdevices holds that id.
C2_RegistryIffBitmap == HeldIds = vinput_ids

\* C3: when export_store returns the error of the provider's init or of
\* device_register, vinput_ids, vinput_vdevices and vinput_devices hold
\* what they held when it was called.
C3_RollbackComplete ==
    \A t \in Threads :
        (th[t].pc = "ret" /\ th[t].op = "export"
           /\ th[t].err \in {"EINIT", "EREG"})
        => Snapshot = th[t].pre

\* export_store has returned the error of device_register with another
\* instance registered
C3_Witness ==
    \E t \in Threads :
        /\ th[t].pc = "ret" /\ th[t].op = "export" /\ th[t].err = "EREG"
        /\ th[t].pre.vdevs # {}

\* C4: when export_store returns -ENOMEM because input_allocate_device
\* failed, the instance is off vinput_vdevices and the id it was given is
\* clear in vinput_ids.
C4_InputAllocRollback ==
    \A t \in Threads :
        (th[t].pc = "ret" /\ th[t].op = "export" /\ th[t].err = "ENOMEM")
        => /\ SeqToSet(vinput_vdevices) = th[t].pre.vdevs
           /\ th[t].id \notin vinput_ids

\* C5: an export_store of a registered type that finds VINPUT_MINORS
\* instances registered changes nothing in vinput_ids, vinput_vdevices and
\* vinput_devices at any of its steps and returns -ENOBUFS.
C5_Exhaustion ==
    \A t \in Threads :
        (th[t].op = "export" /\ th[t].pc # "oops"
           /\ Cardinality(th[t].pre.vdevs) = VINPUT_MINORS
           /\ FirstMatch(th[t].pre.devs, th[t].buf) # NoDev)
        => /\ th[t].pc \in {"alloc", "ret"}
           /\ th[t].pc = "ret" => th[t].err = "ENOBUFS"
           /\ Snapshot = th[t].pre

\* export_store has returned -ENOBUFS with VINPUT_MINORS instances
C5_Witness ==
    \E t \in Threads :
        /\ th[t].pc = "ret" /\ th[t].op = "export" /\ th[t].err = "ENOBUFS"
        /\ Len(vinput_vdevices) = VINPUT_MINORS

\* C6: a lookup (unexport_store or vinput_open) of an id that no instance
\* on vinput_vdevices holds ends by returning -ENODEV and changes nothing.
C6_NotFound ==
    \A t \in Threads :
        (th[t].op \in {"unexport", "open"} /\ th[t].pc # "id_check"
           /\ th[t].id \notin th[t].pre.held)
        => /\ th[t].pc = "ret" /\ th[t].err = "ENODEV"
           /\ Snapshot = th[t].pre

\* C7: a successful allocation takes the lowest id whose bit is clear,
\* and when unexport_store(k) has returned success the bit of k is clear.
C7_LowestFreeId ==
    [][\A t \in Threads :
         /\ (th[t].pc = "alloc" /\ th'[t].pc = "input_alloc")
            => /\ th'[t].id = Min(Ids \ vinput_ids)
               /\ heap'[th'[t].vinput].id = th'[t].id
               /\ vinput_ids' = vinput_ids \cup {th'[t].id}
         /\ (th'[t].pc = "ret" /\ th'[t].op = "unexport"
               /\ th'[t].err = "OK")
            => th'[t].id \notin vinput_ids']_vars

\* export_store was given id 1 again, below the id 2 of an instance
\* registered before, while id 0 is held
C7_Witness ==
    \E t \in Threads :
        /\ th[t].pc = "ret" /\ th[t].op = "export" /\ th[t].err = "OK"
        /\ th[t].id = 1
        /\ {0, 1, 2} \subseteq HeldIds
        /\ Len(vinput_vdevices) >= 3
        /\ heap[vinput_vdevices[1]].id = 1

\* C8, as claimed: with "vkbd" registered before "vkbdpro", the lookup of
\* "vkbdpro" by export_store resolves to the provider "vkbd".
C8_AsClaimed ==
    \A t \in Threads :
        (th[t].pc = "alloc" /\ th[t].buf = vkbdpro
           /\ reg_order = <<vkbd, vkbdpro>>)
        => th[t].device = vkbd

\* C8, amended: list_add puts the newest provider first, so the lookup of
\* "vkbdpro" resolves to "vkbd" when "vkbd" was registered after
\* "vkbdpro", and to "vkbdpro" when "vkbd" was registered before it.
C8_PrefixHazard ==
    \A t \in Threads :
        (th[t].pc = "alloc" /\ th[t].buf = vkbdpro)
        => /\ reg_order = <<vkbdpro, vkbd>> => th[t].device = vkbd
           /\ reg_order = <<vkbd, vkbdpro>> => th[t].device = vkbdpro

\* "vkbdpro" was looked up with "vkbd" registered after it
C8_Witness ==
    \E t \in Threads :
        /\ th[t].pc = "alloc" /\ th[t].buf = vkbdpro
        /\ reg_order = <<vkbdpro, vkbd>> /\ th[t].device = vkbd

\* C9: when vinput_unregister returns after finding three instances of
\* two providers registered, vinput_vdevices is empty, the ids of the
\* three are clear and the other provider is still registered.
C9_MassTeardown ==
    \A t \in Threads :
        (th[t].pc = "ret" /\ th[t].op = "unregister"
           /\ Cardinality(th[t].pre.vdevs) = 3
           /\ th[t].pre.types = {vkbd, vkbdpro})
        => /\ vinput_vdevices = <<>>
           /\ vinput_ids \cap {0, 1, 2} = {}
           /\ SeqToSet(vinput_devices) = Providers \ {th[t].buf}

\* C10, as claimed: a vinput_write of more than VINPUT_MAX_LEN bytes
\* returns -EINVAL without calling the provider's send, and every other
\* vinput_write calls send once and returns what send returned.
C10_AsClaimed ==
    io.op = "write" =>
        IF io.count > VINPUT_MAX_LEN
        THEN io.ret = Result("EINVAL", 0) /\ io.sends = 0
        ELSE io.sends = 1 /\ io.ret = io.sent

\* C10, amended: a vinput_write of more than VINPUT_MAX_LEN bytes returns
\* -EINVAL without calling send; one of at most VINPUT_MAX_LEN bytes whose
\* buffer copy_from_user cannot read returns -EFAULT without calling send;
\* every other one calls send once and returns what send returned.
C10_WriteBound ==
    io.op = "write" =>
        IF io.count > VINPUT_MAX_LEN
        THEN io.ret = Result("EINVAL", 0) /\ io.sends = 0
        ELSE IF io.fault
        THEN io.ret = Result("EFAULT", 0) /\ io.sends = 0
        ELSE io.sends = 1 /\ io.ret = io.sent

\* a write of VINPUT_MAX_LEN + 1 bytes was refused
C10_Witness ==
    /\ io.op = "write" /\ io.count = VINPUT_MAX_LEN + 1
    /\ io.ret = Result("EINVAL", 0)

\* C11: a vinput_read whose offset is at or past the length the provider's
\* read produced returns 0, the boundary offset = len included.
C11_ReadPastEnd ==
    (io.op = "read" /\ io.offset >= io.len) => io.ret = Result("OK", 0)

\* C12: of two unexport_store calls of the same id running at once, at
\* most one passes vinput_get_vdevice_by_id: no two threads are at the
\* unregistrations of lines 300-301 for the same instance.
C12_DestroyOnce ==
    \A t1, t2 \in Threads :
        (t1 # t2
           /\ th[t1].pc \in {"unexport_device", "unexport_input"}
           /\ th[t2].pc \in {"unexport_device", "unexport_input"})
        => th[t1].vinput # th[t2].vinput

\* the positions of a thread right before a call into the input core,
\* the driver core or the provider
ExternalCall == {"input_alloc", "init", "device_register", "input_register",
                 "fail_register_input", "fail_register", "unexport_device",
                 "unexport_input", "walk"}

\* C13: no thread holds vinput_lock where it calls into the input core,
\* the driver core or the provider, nor after the kfree that ends a step,
\* nor when it returns; vinput_unregister walks the instances without the
\* lock.  Only a thread that died inside a critical section keeps it.
C13_LockOnlyBookkeeping ==
    \A t \in Threads :
        /\ th[t].pc \in ExternalCall => ~th[t].holds
        /\ th[t].holds => th[t].pc = "oops" /\ vinput_lock = "locked"

\* vinput_unregister has returned after its device_unregister dropped the
\* last reference of an instance, whose teardown took the lock again
C13_Witness ==
    \E t \in Threads :
        /\ th[t].pc = "ret" /\ th[t].op = "unregister"
        /\ SeqToSet(vinput_vdevices) # th[t].pre.vdevs
        /\ SeqToSet(vinput_vdevices) \subseteq th[t].pre.vdevs
        /\ vinput_lock = "unlocked"

\* the positions of a thread right before it reads vinput_vdevices or a
\* field of one of its members: the comparison of vinput->id at line 62
\* and the turns of list_for_each_safe at line 341
RegistryRead == {"id_check", "walk"}

\* C14: a thread that is about to read vinput_vdevices, or the id of one
\* of its members to decide a lookup, holds vinput_lock.
C14_AllUnderLock ==
    \A t \in Threads : th[t].pc \in RegistryRead => th[t].holds

\* C15: while unexport_store still has an unregistration to make (the
\* device_unregister of line 300 or the input_unregister_device of line
\* 301), the instance is allocated, on vinput_vdevices and its id is set:
\* it is released only by the last of the two.
C15_ReleaseAfterUnregister ==
    \A t \in Threads :
        th[t].pc \in {"unexport_device", "unexport_input"}
        => /\ heap[th[t].vinput].alloc
           /\ th[t].vinput \in SeqToSet(vinput_vdevices)
           /\ heap[th[t].vinput].id \in vinput_ids

\* C16: when input_register_device has failed, the instance stays
\* allocated, on vinput_vdevices and with its id set until the last step
\* of the rollback, vinput_destroy_vdevice at fail_register_vinput, which
\* is then the only one to remove it, clear its id and free it.
C16_RollbackOnce ==
    \A t \in Threads :
        (th[t].err = "EINPUT"
           /\ th[t].pc \in {"fail_register", "fail_register_vinput"})
        => /\ heap[th[t].vinput].alloc
           /\ th[t].vinput \in SeqToSet(vinput_vdevices)
           /\ heap[th[t].vinput].id \in vinput_ids

\* C17: in the rollback of export_store, the input device of the instance
\* is no longer held when the last step, vinput_destroy_vdevice at
\* fail_register_vinput, frees the instance (which does not free the input
\* device); vinput_unregister_vdevice at fail_register is called on a
\* registered input device only, and device_unregister at
\* fail_register_input on a registered node only.
C17_NoDanglingHandle ==
    \A t \in Threads :
        (th[t].vinput \in Addr /\ heap[th[t].vinput].alloc)
        => /\ th[t].pc = "fail_register_vinput"
                => heap[th[t].vinput].input \notin {"alloc", "reg"}
           /\ th[t].pc = "fail_register"
                => heap[th[t].vinput].input = "reg"
           /\ th[t].pc = "fail_register_input"
                => heap[th[t].vinput].node = "reg"

\* the instance at address a is still in the hands of the export_store
\* that allocated it
InCreate(a) ==
    \E u \in Threads :
        /\ th[u].op = "export" /\ th[u].vinput = a
        /\ th[u].pc \notin {"idle", "ret", "oops"}

\* C18: whenever vinput_get_vdevice_by_id hands an instance to
\* unexport_store or vinput_open, that instance is allocated, bound to a
\* provider, and the export_store that created it is no longer running.
C18_VisibleWhenLive ==
    [][\A t \in Threads :
         (/\ th[t].pc = "id_check"
          /\ \/ th'[t].pc = "unexport_device"
             \/ th'[t].pc = "ret" /\ th'[t].err = "OK")
         => /\ th[t].vinput \in Addr
            /\ heap[th[t].vinput].alloc
            /\ heap[th[t].vinput].type # NoDev
            /\ ~InCreate(th[t].vinput)]_vars

\* C19: the bytes a vinput_read copies out are at most max(0, len - offset)
\* and lie in the first VINPUT_MAX_LEN bytes of the buffer.
C19_ReadClamp ==
    (io.op = "read" /\ io.ret.err = "OK")
    => /\ io.ret.n <= (IF io.len > io.offset THEN io.len - io.offset ELSE 0)
       /\ io.ret.n > 0 => io.offset + io.ret.n <= VINPUT_MAX_LEN

\* C20: when an export_store has returned success and a
\* vinput_unregister that did not find its instance on vinput_vdevices
\* has returned too, that instance, if still registered, is bound to a
\* provider that is on vinput_devices.
C20_NoOrphanInstance ==
    \A t, u \in Threads :
        (/\ th[t].pc = "ret" /\ th[t].op = "export" /\ th[t].err = "OK"
         /\ th[u].pc = "ret" /\ th[u].op = "unregister")
        => \A a \in SeqToSet(vinput_vdevices) \ th[u].pre.vdevs :
              (heap[a].alloc /\ heap[a].id = th[t].id)
              => heap[a].type \in SeqToSet(vinput_devices)

=============================================================================
